---- MODULE Spec2Model ----
(***************************************************************************)
(* A model of src/transcribe.js: the Transcriber class (model loading,     *)
(* audio extraction, batch recognition, cancellation, events), its static  *)
(* helpers (resampleAudio, toSRT, toVTT and the time formatters) and the   *)
(* click handlers of the page that drive one shared Transcriber.           *)
(*                                                                         *)
(* JavaScript runs one task at a time.  Every action below is one          *)
(* uninterrupted stretch of code: from a call or from the resumption of an *)
(* await up to the next await that waits for the outside world.            *)
(***************************************************************************)
EXTENDS Integers, Sequences, FiniteSets, TLC

\* ------------------------------------------------------------------ bounds
MaxRuns == 2          \* transcribe() invocations on the instance
MaxCancels == 1       \* cancel() invocations
MaxProgress == 1      \* progress events the outside world reports, over all runs
MaxChunks == 2        \* chunks in one engine result
MaxFiles == 2         \* files the user selects
MaxCues == 2          \* segments handed to toSRT / toVTT
MaxChannels == 5      \* channels of a decoded buffer
MaxSamples == 2       \* samples per channel, where the sample values vary
MaxLength == 6        \* samples per channel, where only the indices matter
MaxRate == 5          \* sample rates, in a common unit

Runs == 1..MaxRuns

\* JS null / undefined where a number is expected (timestamps are >= 0).
Null == -1

\* ------------------------------------------------------------------ strings
\* A string is a sequence of one-character strings.
IsSpace(c) == c \in {" ", "\n"}

RECURSIVE TrimStart(_)
TrimStart(s) ==
    IF s = <<>> THEN s
    ELSE IF IsSpace(Head(s)) THEN TrimStart(Tail(s)) ELSE s

RECURSIVE TrimEnd(_)
TrimEnd(s) ==
    IF s = <<>> THEN s
    ELSE IF IsSpace(s[Len(s)]) THEN TrimEnd(SubSeq(s, 1, Len(s) - 1)) ELSE s

\* String.prototype.trim
Trim(s) == TrimEnd(TrimStart(s))

\* Array.prototype.join
RECURSIVE Join(_, _)
Join(parts, sep) ==
    IF parts = <<>> THEN <<>>
    ELSE IF Len(parts) = 1 THEN parts[1]
    ELSE parts[1] \o sep \o Join(Tail(parts), sep)

\* `x || 0` on a number or null: null and 0 are falsy.
OrZero(v) == IF v = Null \/ v = 0 THEN 0 ELSE v

\* Math.round of a value given in tenths (504 is 50.4).
RoundTenths(x) == (x + 5) \div 10

\* Math.round((loaded / total) * 100)
ReadPercent(loaded, total) == (200 * loaded + total) \div (2 * total)

\* ------------------------------------------------------------------ results
\* confidence: 0.9, kept in tenths
Confidence == 9

\* (variant: the text is taken over untrimmed)
ChunkToSegmentUntrimmed(chunk) ==
    [ text       |-> chunk.text,
      startTime  |-> OrZero(chunk.timestamp[1]),
      endTime    |-> OrZero(chunk.timestamp[2]),
      confidence |-> Confidence ]

\* chunk => segment (the map callback)
ChunkToSegment(chunk) ==
    [ text       |-> Trim(chunk.text),
      startTime  |-> OrZero(chunk.timestamp[1]),
      endTime    |-> OrZero(chunk.timestamp[2]),
      confidence |-> Confidence ]

\* `result.chunks && result.chunks.length > 0`
HasChunks(result) == result.chunks.defined /\ Len(result.chunks.val) > 0

\* this.segments after "Process results"
SegmentsOf(result) ==
    IF HasChunks(result)
    THEN [i \in 1..Len(result.chunks.val) |-> ChunkToSegment(result.chunks.val[i])]
    ELSE <<>>

\* fullText after "Process results"
FullTextOf(result) ==
    IF HasChunks(result)
    THEN Join([i \in 1..Len(result.chunks.val) |-> SegmentsOf(result)[i].text], <<" ">>)
    ELSE IF result.text.defined THEN result.text.val ELSE <<>>

DurationOf(segs) == IF Len(segs) > 0 THEN segs[Len(segs)].endTime ELSE 0

\* finalResult
FinalResult(result) ==
    [ text     |-> Trim(FullTextOf(result)),
      segments |-> SegmentsOf(result),
      duration |-> DurationOf(SegmentsOf(result)),
      language |-> "en" ]

NoResult == [text |-> <<>>, segments |-> <<>>, duration |-> 0, language |-> "none"]

\* ------------------------------------------------------------------ the engine's answers
MaxTime == 1          \* largest timestamp the engine reports

Texts == { <<>>, <<"a">>, <<" ", "b">>, <<"c", " ">> }
RawTexts == { [defined |-> FALSE, val |-> <<>>],
              [defined |-> TRUE,  val |-> <<>>],
              [defined |-> TRUE,  val |-> <<" ", "b">>] }

\* [start, end]: either bound may be null; present bounds are >= 0 and ordered.
Timestamps ==
    { ts \in [1..2 -> (0..MaxTime) \cup {Null}] :
        (ts[1] # Null /\ ts[2] # Null) => ts[1] <= ts[2] }

Chunks == [text : Texts, timestamp : Timestamps]

\* The engine reports chunks chronologically: the starts it reports never decrease.
Chronological(cs) ==
    \A i, j \in 1..Len(cs) :
        (i < j /\ cs[i].timestamp[1] # Null /\ cs[j].timestamp[1] # Null)
            => cs[i].timestamp[1] <= cs[j].timestamp[1]

ChunkLists ==
    { cs \in UNION { [1..n -> Chunks] : n \in 0..MaxChunks } : Chronological(cs) }

\* What `await this.pipeline(audioData, {... return_timestamps: true})` can yield.
EngineResults ==
    { [chunks |-> [defined |-> TRUE, val |-> cs], text |-> t] :
        cs \in ChunkLists, t \in RawTexts }
    \cup { [chunks |-> [defined |-> FALSE, val |-> <<>>], text |-> t] : t \in RawTexts }

\* The answer used where runs interleave.
SampleResults ==
    { [chunks |-> [defined |-> TRUE,
                   val |-> << [text |-> <<"a">>, timestamp |-> <<0, 1>>] >>],
       text   |-> [defined |-> TRUE, val |-> <<"a">>]] }

NoAnswer == [chunks |-> [defined |-> FALSE, val |-> <<>>],
             text   |-> [defined |-> FALSE, val |-> <<>>]]

\* progress.status values of the engine's loading callback
EngineStatuses == {"initiate", "downloading", "progress", "done"}
\* progress.progress of the engine's download callback, in tenths; 0 is "absent".
EngineProgress == {0, 496, 504, 1000}
\* e.loaded of a FileReader progress event, for a file of FileSize bytes.
FileSize == 2
\* The values reported where runs interleave.
SampleProgress == {504}
SampleLoaded == {1}

\* ------------------------------------------------------------------ state
VARIABLES
    supported,      \* isSupported(): the platform has an AudioContext
    pipeline,       \* this.pipeline: 0 is null, r the engine built for run r's loadModel
    isTranscribing, \* this.isTranscribing
    isCancelled,    \* this.isCancelled
    segments,       \* this.segments
    loads,          \* calls of the external pipeline(...) constructor so far
    built,          \* of these, how many have succeeded
    ncancel,        \* calls of cancel() so far
    pc,             \* where each transcribe() run is
    outcome,        \* how each run settled
    answer,         \* the engine's answer that the run processed
    result,         \* the TranscriptionResult a run resolved with
    log,            \* the onProgress callbacks of each run, in order
    partials,       \* the onPartialResult callbacks of each run
    ev,             \* the events emitted while the run was in flight
    cancelAt,       \* the phase the run was in when cancel() was first called on it
    ctx,            \* the AudioContext of the run's extractAudio
    caller,         \* who invoked the run: "api" or the page's click handler "ui"
    currentFile,    \* the page: 0 is null, else the n-th file selected
    transcribeBtnDisabled,
    cancelBtnHidden,
    exportSegments, \* the segment list handed to toSRT / toVTT
    srt,            \* what toSRT returned
    vtt,            \* what toVTT returned
    audioBuffer,    \* the decoded AudioBuffer handed to resampleAudio
    targetSampleRate,
    resampled       \* what resampleAudio returned, and the source indices it read

vars == << supported, pipeline, isTranscribing, isCancelled, segments, loads, built,
           ncancel, pc, outcome, answer, result, log, partials, ev, cancelAt, ctx,
           caller, currentFile, transcribeBtnDisabled, cancelBtnHidden,
           exportSegments, srt, vtt, audioBuffer, targetSampleRate, resampled >>

\* The arguments and return values of the static helpers.
pureVars == << exportSegments, srt, vtt, audioBuffer, targetSampleRate, resampled >>

instanceVars == << pipeline, isTranscribing, isCancelled, segments >>
uiVars == << currentFile, transcribeBtnDisabled, cancelBtnHidden >>

EventNames == {"start", "loading", "end", "cancel", "error"}
Settled == {"resolved", "rejected"}
InFlight(r) == pc[r] \notin {"idle"} \cup Settled

\* The phase a run in flight is waiting in.
PhaseOf(p) ==
    IF p \in {"loadCached", "importing", "loading"} THEN "load"
    ELSE IF p \in {"reading", "decoding"} THEN "extract"
    ELSE "recognize"

\* A continuation that is already queued as a microtask: it runs before any
\* event of the outside world (a click, a completion) is delivered.
MicrotaskPending == \E r \in Runs : pc[r] = "loadCached"

Progress(st, pct) == [status |-> st, percent |-> pct]
CountStatus(l, st) == Cardinality({i \in 1..Len(l) : l[i].status = st})
\* The progress events of the outside world among the callbacks l: every
\* 'reading', and every 'loading' but the first, which transcribe() reports itself.
ProgressEvents(l) ==
    CountStatus(l, "reading") + (IF l = <<>> THEN 0 ELSE CountStatus(l, "loading") - 1)
RECURSIVE SumProgress(_)
SumProgress(n) == IF n = 0 THEN 0 ELSE ProgressEvents(log[n]) + SumProgress(n - 1)
TotalProgress == SumProgress(MaxRuns)

\* The instance after its constructor, and the page after its script has run.
InitInstance ==
    /\ supported \in BOOLEAN
    /\ pipeline = 0
    /\ isTranscribing = FALSE
    /\ isCancelled = FALSE
    /\ segments = <<>>
    /\ loads = 0
    /\ built = 0
    /\ ncancel = 0
    /\ pc = [r \in Runs |-> "idle"]
    /\ outcome = [r \in Runs |-> "none"]
    /\ answer = [r \in Runs |-> NoAnswer]
    /\ result = [r \in Runs |-> NoResult]
    /\ log = [r \in Runs |-> <<>>]
    /\ partials = [r \in Runs |-> 0]
    /\ ev = [r \in Runs |-> [e \in EventNames |-> 0]]
    /\ cancelAt = [r \in Runs |-> "none"]
    /\ ctx = [r \in Runs |-> "none"]
    /\ caller = [r \in Runs |-> "none"]
    /\ currentFile = 0
    /\ transcribeBtnDisabled = FALSE
    /\ cancelBtnHidden = TRUE

\* A static helper that has not been called.
NotCalled == [called |-> FALSE, out |-> <<>>]
NoBuffer == [numberOfChannels |-> 1, sampleRate |-> 1, length |-> 0, channels |-> << <<>> >>]
NotResampled == [called |-> FALSE, out |-> <<>>, reads |-> {}]

Init ==
    /\ InitInstance
    /\ exportSegments = <<>>
    /\ srt = NotCalled
    /\ vtt = NotCalled
    /\ audioBuffer = NoBuffer
    /\ targetSampleRate = 1
    /\ resampled = NotResampled

\* ------------------------------------------------------------------ emit
Emit(r, e) == ev' = [ev EXCEPT ![r][e] = @ + 1]

\* ------------------------------------------------------------------ transcribe(): the catch block
\* (variant: the catch block leaves isTranscribing as it is)
CatchKeepsTranscribing(r, kind) ==
    /\ UNCHANGED isTranscribing
    /\ Emit(r, IF kind = "Cancelled" THEN "cancel" ELSE "error")
    /\ pc' = [pc EXCEPT ![r] = "rejected"]
    /\ outcome' = [outcome EXCEPT ![r] = kind]
    /\ IF caller[r] = "ui"
       THEN transcribeBtnDisabled' = FALSE /\ cancelBtnHidden' = TRUE
       ELSE UNCHANGED << transcribeBtnDisabled, cancelBtnHidden >>

\* The run rejects; when the page's click handler awaits it, the handler's
\* catch block runs in the same turn.
Catch(r, kind) ==
    /\ isTranscribing' = FALSE
    /\ Emit(r, IF kind = "Cancelled" THEN "cancel" ELSE "error")
    /\ pc' = [pc EXCEPT ![r] = "rejected"]
    /\ outcome' = [outcome EXCEPT ![r] = kind]
    /\ IF caller[r] = "ui"
       THEN transcribeBtnDisabled' = FALSE /\ cancelBtnHidden' = TRUE
       ELSE UNCHANGED << transcribeBtnDisabled, cancelBtnHidden >>

\* What Catch may change, for the branches that do not take it.
catchVars == << isTranscribing, ev, outcome, transcribeBtnDisabled, cancelBtnHidden >>

\* ------------------------------------------------------------------ transcribe(): entry
\* (variant: loadModel() is called but not awaited, extractAudio starts at once)
TranscribeCallNoAwait(r, who) ==
    /\ pc[r] = "idle"
    /\ \A q \in Runs : q < r => pc[q] # "idle"
    /\ caller' = [caller EXCEPT ![r] = who]
    /\ IF ~supported
       THEN /\ pc' = [pc EXCEPT ![r] = "rejected"]
            /\ outcome' = [outcome EXCEPT ![r] = "Unsupported"]
            /\ UNCHANGED << isTranscribing, isCancelled, segments, ev, log >>
       ELSE /\ isTranscribing' = TRUE
            /\ isCancelled' = FALSE
            /\ segments' = <<>>
            /\ Emit(r, "start")
            /\ log' = [log EXCEPT ![r] =
                        << Progress("loading", 0), Progress("extracting", 0) >>]
            /\ pc' = [pc EXCEPT ![r] = "reading"]
            /\ UNCHANGED outcome
    /\ UNCHANGED << pureVars, supported, pipeline, loads, built, ncancel, answer, result, partials,
                    cancelAt, ctx, currentFile >>

\* (variant: the support check comes after the state reset and 'start', inside
\* the try block)
TranscribeCallLateCheck(r, who) ==
    /\ pc[r] = "idle"
    /\ \A q \in Runs : q < r => pc[q] # "idle"
    /\ caller' = [caller EXCEPT ![r] = who]
    /\ isCancelled' = FALSE
    /\ segments' = <<>>
    /\ IF ~supported
       THEN /\ isTranscribing' = FALSE
            /\ ev' = [ev EXCEPT ![r]["start"] = @ + 1, ![r]["error"] = @ + 1]
            /\ pc' = [pc EXCEPT ![r] = "rejected"]
            /\ outcome' = [outcome EXCEPT ![r] = "Unsupported"]
            /\ UNCHANGED log
       ELSE /\ isTranscribing' = TRUE
            /\ Emit(r, "start")
            /\ log' = [log EXCEPT ![r] = << Progress("loading", 0) >>]
            /\ pc' = [pc EXCEPT ![r] = IF pipeline # 0 THEN "loadCached" ELSE "importing"]
            /\ UNCHANGED outcome
    /\ UNCHANGED << pureVars, supported, pipeline, loads, built, ncancel, answer, result,
                    partials, cancelAt, ctx, currentFile >>

\* transcribe() up to its first await, loadModel() up to its first await included.
TranscribeCall(r, who) ==
    /\ pc[r] = "idle"
    /\ \A q \in Runs : q < r => pc[q] # "idle"
    /\ caller' = [caller EXCEPT ![r] = who]
    /\ IF ~supported
       THEN /\ pc' = [pc EXCEPT ![r] = "rejected"]
            /\ outcome' = [outcome EXCEPT ![r] = "Unsupported"]
            /\ UNCHANGED << isTranscribing, isCancelled, segments, ev, log >>
       ELSE /\ isTranscribing' = TRUE
            /\ isCancelled' = FALSE
            /\ segments' = <<>>
            /\ Emit(r, "start")
            /\ log' = [log EXCEPT ![r] = << Progress("loading", 0) >>]
            /\ pc' = [pc EXCEPT ![r] = IF pipeline # 0 THEN "loadCached" ELSE "importing"]
            /\ UNCHANGED outcome
    /\ UNCHANGED << pureVars, supported, pipeline, loads, built, ncancel, answer, result, partials,
                    cancelAt, ctx, currentFile >>

\* A caller other than the page calls transcribe().
Transcribe(r) ==
    /\ TranscribeCall(r, "api")
    /\ UNCHANGED << transcribeBtnDisabled, cancelBtnHidden >>

\* ------------------------------------------------------------------ cancel()
CancelCall ==
    /\ ncancel < MaxCancels
    /\ ncancel' = ncancel + 1
    /\ isCancelled' = TRUE
    /\ isTranscribing' = FALSE
    /\ ev' = [r \in Runs |->
                IF InFlight(r) THEN [ev[r] EXCEPT !["cancel"] = @ + 1] ELSE ev[r]]
    /\ cancelAt' = [r \in Runs |->
                IF InFlight(r) /\ cancelAt[r] = "none" THEN PhaseOf(pc[r]) ELSE cancelAt[r]]
    /\ UNCHANGED << pureVars, supported, pipeline, segments, loads, built, pc, outcome, answer,
                    result, log, partials, ctx, caller, currentFile >>

Cancel ==
    /\ CancelCall
    /\ UNCHANGED << transcribeBtnDisabled, cancelBtnHidden >>

\* ------------------------------------------------------------------ step 1: the model
\* transcribe() resumes after `await this.loadModel(...)`, calls extractAudio,
\* which starts the FileReader.
AfterLoad(r) ==
    IF isCancelled
    THEN /\ Catch(r, "Cancelled")
         /\ UNCHANGED log
    ELSE /\ log' = [log EXCEPT ![r] = Append(@, Progress("extracting", 0))]
         /\ pc' = [pc EXCEPT ![r] = "reading"]
         /\ UNCHANGED catchVars

\* loadModel() returned the cached pipeline; the await resumes.
LoadResume(r) ==
    /\ pc[r] = "loadCached"
    /\ AfterLoad(r)
    /\ UNCHANGED << pureVars, supported, pipeline, isCancelled, segments, loads, built, ncancel,
                    answer, result, partials, cancelAt, ctx, caller, currentFile >>

\* The import of the library resolves; loadModel() calls pipeline(...).
ImportDone(r) ==
    /\ pc[r] = "importing"
    /\ ~MicrotaskPending
    /\ loads' = loads + 1
    /\ pc' = [pc EXCEPT ![r] = "loading"]
    /\ UNCHANGED << pureVars, supported, pipeline, isTranscribing, isCancelled, segments, built,
                    ncancel, outcome, answer, result, log, partials, ev,
                    cancelAt, ctx, caller, uiVars >>

\* The import rejects: loadModel() rejects, transcribe() catches.
ImportFail(r) ==
    /\ pc[r] = "importing"
    /\ ~MicrotaskPending
    /\ Catch(r, "LoadFailure")
    /\ UNCHANGED << pureVars, supported, pipeline, isCancelled, segments, loads, built, ncancel,
                    answer, result, log, partials, cancelAt, ctx, caller, currentFile >>

\* progress_callback, for the progress values ps
LoadProgressOf(r, ps) ==
    /\ pc[r] = "loading"
    /\ ~MicrotaskPending
    /\ TotalProgress < MaxProgress
    /\ \E st \in EngineStatuses, p \in ps :
         IF st = "downloading" \/ st = "progress"
         THEN /\ log' = [log EXCEPT ![r] =
                    Append(@, Progress("loading", IF p # 0 THEN RoundTenths(p) ELSE 0))]
              /\ Emit(r, "loading")
         ELSE UNCHANGED << log, ev >>
    /\ UNCHANGED << pureVars, supported, pipeline, isTranscribing, isCancelled, segments, loads,
                    built, ncancel, pc, outcome, answer, result, partials, cancelAt,
                    ctx, caller, uiVars >>

LoadProgress(r) == LoadProgressOf(r, SampleProgress)
LoadProgressAny(r) == LoadProgressOf(r, EngineProgress)

\* pipeline(...) resolves: loadModel() stores the engine and returns it.
LoadDone(r) ==
    /\ pc[r] = "loading"
    /\ ~MicrotaskPending
    /\ pipeline' = built + 1
    /\ built' = built + 1
    /\ AfterLoad(r)
    /\ UNCHANGED << pureVars, supported, isCancelled, segments, loads, ncancel, answer, result,
                    partials, cancelAt, ctx, caller, currentFile >>

\* pipeline(...) rejects.
LoadFail(r) ==
    /\ pc[r] = "loading"
    /\ ~MicrotaskPending
    /\ Catch(r, "LoadFailure")
    /\ UNCHANGED << pureVars, supported, pipeline, isCancelled, segments, loads, built, ncancel,
                    answer, result, log, partials, cancelAt, ctx, caller, currentFile >>

\* ------------------------------------------------------------------ step 2: the audio
\* reader.onprogress, for the byte counts ls
ReadProgressOf(r, ls) ==
    /\ pc[r] = "reading"
    /\ ~MicrotaskPending
    /\ TotalProgress < MaxProgress
    /\ \E lengthComputable \in BOOLEAN, loaded \in ls :
         IF lengthComputable
         THEN log' = [log EXCEPT ![r] =
                  Append(@, Progress("reading", ReadPercent(loaded, FileSize)))]
         ELSE UNCHANGED log
    /\ UNCHANGED << pureVars, supported, instanceVars, loads, built, ncancel, pc, outcome,
                    answer, result, partials, ev, cancelAt, ctx, caller, uiVars >>

ReadProgress(r) == ReadProgressOf(r, SampleLoaded)
ReadProgressAny(r) == ReadProgressOf(r, 0..FileSize)

\* reader.onerror
ReadFail(r) ==
    /\ pc[r] = "reading"
    /\ ~MicrotaskPending
    /\ Catch(r, "ReadFailure")
    /\ UNCHANGED << pureVars, supported, pipeline, isCancelled, segments, loads, built, ncancel,
                    answer, result, log, partials, cancelAt, ctx, caller, currentFile >>

\* reader.onload up to `await audioContext.decodeAudioData(...)`
ReadDone(r) ==
    /\ pc[r] = "reading"
    /\ ~MicrotaskPending
    /\ log' = [log EXCEPT ![r] = Append(@, Progress("decoding", 0))]
    /\ ctx' = [ctx EXCEPT ![r] = "open"]
    /\ pc' = [pc EXCEPT ![r] = "decoding"]
    /\ UNCHANGED << pureVars, supported, instanceVars, loads, built, ncancel, outcome,
                    answer, result, partials, ev, cancelAt, caller, uiVars >>

\* decodeAudioData rejects: the inner catch closes the context and rejects.
DecodeFail(r) ==
    /\ pc[r] = "decoding"
    /\ ~MicrotaskPending
    /\ ctx' = [ctx EXCEPT ![r] = "closed"]
    /\ Catch(r, "DecodeFailure")
    /\ UNCHANGED << pureVars, supported, pipeline, isCancelled, segments, loads, built, ncancel,
                    answer, result, log, partials, cancelAt, caller, currentFile >>

\* transcribe() resumes after `await this.extractAudio(...)` and calls the engine;
\* l is the run's progress so far.
AfterExtract(r, l) ==
    IF isCancelled
    THEN /\ Catch(r, "Cancelled")
         /\ log' = [log EXCEPT ![r] = l]
         /\ UNCHANGED partials
    ELSE /\ log' = [log EXCEPT ![r] = Append(l, Progress("transcribing", 0))]
         /\ partials' = [partials EXCEPT ![r] = @ + 1]
         /\ pc' = [pc EXCEPT ![r] = "inferring"]
         /\ UNCHANGED catchVars

\* decodeAudioData resolves: the audio is resampled, the context closed and
\* extractAudio resolves.
DecodeDone(r) ==
    /\ pc[r] = "decoding"
    /\ ~MicrotaskPending
    /\ ctx' = [ctx EXCEPT ![r] = "closed"]
    /\ AfterExtract(r, Append(log[r], Progress("processing", 50)))
    /\ UNCHANGED << pureVars, supported, pipeline, isCancelled, segments, loads, built, ncancel,
                    answer, result, cancelAt, caller, currentFile >>

\* decodeAudioData resolves, then the 'processing' callback or resampleAudio
\* throws: the outer catch rejects.
ProcessFail(r) ==
    /\ pc[r] = "decoding"
    /\ ~MicrotaskPending
    /\ log' = [log EXCEPT ![r] = Append(@, Progress("processing", 50))]
    /\ Catch(r, "ProcessFailure")
    /\ UNCHANGED << pureVars, supported, pipeline, isCancelled, segments, loads, built, ncancel,
                    answer, result, partials, cancelAt, ctx, caller, currentFile >>

\* ------------------------------------------------------------------ step 3: the engine
\* The inference resolves with res: results are processed and the run resolves.
\* When the page's click handler awaits the run, it continues in the same turn.
InferDoneWith(r, res) ==
    /\ pc[r] = "inferring"
    /\ ~MicrotaskPending
    /\ IF isCancelled
       THEN /\ Catch(r, "Cancelled")
            /\ UNCHANGED << segments, log, answer, result >>
       ELSE /\ answer' = [answer EXCEPT ![r] = res]
            /\ segments' = SegmentsOf(res)
            /\ log' = [log EXCEPT ![r] = Append(@, Progress("complete", 100))]
            /\ result' = [result EXCEPT ![r] = FinalResult(res)]
            /\ Emit(r, "end")
            /\ isTranscribing' = FALSE
            /\ pc' = [pc EXCEPT ![r] = "resolved"]
            /\ outcome' = [outcome EXCEPT ![r] = "result"]
            /\ cancelBtnHidden' = (IF caller[r] = "ui" THEN TRUE ELSE cancelBtnHidden)
            /\ UNCHANGED transcribeBtnDisabled
    /\ UNCHANGED << pureVars, supported, pipeline, isCancelled, loads, built, ncancel, partials,
                    cancelAt, ctx, caller, currentFile >>

InferDone(r) ==
    /\ pc[r] = "inferring"
    /\ \E res \in SampleResults : InferDoneWith(r, res)

InferDoneAny(r) ==
    /\ pc[r] = "inferring"
    /\ \E res \in EngineResults : InferDoneWith(r, res)

\* The inference rejects: 'Transcription failed: ...'
InferFail(r) ==
    /\ pc[r] = "inferring"
    /\ ~MicrotaskPending
    /\ Catch(r, "InferenceFailure")
    /\ UNCHANGED << pureVars, supported, pipeline, isCancelled, segments, loads, built, ncancel,
                    answer, result, log, partials, cancelAt, ctx, caller, currentFile >>

\* ------------------------------------------------------------------ the page
\* handleFile
HandleFile ==
    /\ ~MicrotaskPending
    /\ currentFile < MaxFiles
    /\ currentFile' = currentFile + 1
    /\ transcribeBtnDisabled' = FALSE
    /\ cancelBtnHidden' = TRUE
    /\ UNCHANGED << pureVars, supported, instanceVars, loads, built, ncancel, pc, outcome,
                    answer, result, log, partials, ev, cancelAt, ctx, caller >>

\* transcribeBtn click handler, up to its await; a disabled button gets no click.
ClickTranscribe(r) ==
    /\ ~MicrotaskPending
    /\ ~transcribeBtnDisabled
    /\ currentFile # 0
    /\ TranscribeCall(r, "ui")
    /\ IF supported
       THEN transcribeBtnDisabled' = TRUE /\ cancelBtnHidden' = FALSE
       ELSE transcribeBtnDisabled' = FALSE /\ cancelBtnHidden' = TRUE

\* cancelBtn click handler; a hidden button gets no click.
ClickCancel ==
    /\ ~MicrotaskPending
    /\ ~cancelBtnHidden
    /\ CancelCall
    /\ transcribeBtnDisabled' = FALSE
    /\ cancelBtnHidden' = TRUE

\* ------------------------------------------------------------------ export
Digits == <<"0", "1", "2", "3", "4", "5", "6", "7", "8", "9">>

\* String(n), n >= 0
RECURSIVE StringOf(_)
StringOf(n) ==
    IF n < 10 THEN << Digits[n + 1] >>
    ELSE StringOf(n \div 10) \o << Digits[(n % 10) + 1] >>

\* String.prototype.padStart
RECURSIVE PadStart(_, _, _)
PadStart(s, n, c) == IF Len(s) >= n THEN s ELSE PadStart(<<c>> \o s, n, c)

\* Times are whole seconds here, so that `seconds % 1` is 0.
formatTimeSRT(seconds) ==
    LET h  == seconds \div 3600
        m  == (seconds % 3600) \div 60
        sc == seconds % 60
        ms == (seconds % 1) * 1000
    IN  PadStart(StringOf(h), 2, "0") \o <<":">> \o PadStart(StringOf(m), 2, "0")
            \o <<":">> \o PadStart(StringOf(sc), 2, "0")
            \o <<",">> \o PadStart(StringOf(ms), 3, "0")

formatTimeVTT(seconds) ==
    LET h  == seconds \div 3600
        m  == (seconds % 3600) \div 60
        sc == seconds % 60
        ms == (seconds % 1) * 1000
    IN  PadStart(StringOf(h), 2, "0") \o <<":">> \o PadStart(StringOf(m), 2, "0")
            \o <<":">> \o PadStart(StringOf(sc), 2, "0")
            \o <<".">> \o PadStart(StringOf(ms), 3, "0")

Arrow == <<" ", "-", "-", ">", " ">>

\* (variant: the block carries the 0-based index)
SRTBlockZeroBased(segment, index) ==
    StringOf(index) \o <<"\n">>
        \o formatTimeSRT(segment.startTime) \o Arrow \o formatTimeSRT(segment.endTime)
        \o <<"\n">> \o segment.text \o <<"\n">>

\* The map callback of toSRT; index is 0-based.
SRTBlock(segment, index) ==
    StringOf(index + 1) \o <<"\n">>
        \o formatTimeSRT(segment.startTime) \o Arrow \o formatTimeSRT(segment.endTime)
        \o <<"\n">> \o segment.text \o <<"\n">>

toSRT(segs) == Join([i \in 1..Len(segs) |-> SRTBlock(segs[i], i - 1)], <<"\n">>)

\* `lines` of toVTT after the forEach has handled the first n segments.
RECURSIVE VTTLines(_, _)
VTTLines(segs, n) ==
    IF n = 0 THEN << <<"W", "E", "B", "V", "T", "T", "\n">> >>
    ELSE VTTLines(segs, n - 1) \o
            << StringOf((n - 1) + 1),
               formatTimeVTT(segs[n].startTime) \o Arrow \o formatTimeVTT(segs[n].endTime),
               segs[n].text,
               <<>> >>

toVTT(segs) == Join(VTTLines(segs, Len(segs)), <<"\n">>)

\* Chunk texts and timestamps for the segment lists that are exported.
ExportTexts == { <<>>, <<" ", "a">>, <<"a", "\n", "b">>, <<"a", "\n", "\n", "b">> }
ExportTimestamps == { <<0, 1>>, <<61, 3661>> }
\* The segments transcribe() makes of such chunks.
ExportSegments ==
    { ChunkToSegment([text |-> t, timestamp |-> ts]) :
        t \in ExportTexts, ts \in ExportTimestamps }
SegmentLists == UNION { [1..n -> ExportSegments] : n \in 0..MaxCues }

InitExport ==
    /\ InitInstance
    /\ exportSegments \in SegmentLists
    /\ srt = NotCalled
    /\ vtt = NotCalled
    /\ audioBuffer = NoBuffer
    /\ targetSampleRate = 1
    /\ resampled = NotResampled

\* Transcriber.toSRT(segments) is called, as the page's SRT download does.
ExportSRT ==
    /\ ~srt.called
    /\ srt' = [called |-> TRUE, out |-> toSRT(exportSegments)]
    /\ UNCHANGED << supported, instanceVars, loads, built, ncancel, pc, outcome, answer,
                    result, log, partials, ev, cancelAt, ctx, caller, uiVars,
                    exportSegments, vtt, audioBuffer, targetSampleRate, resampled >>

\* Transcriber.toVTT(segments) is called.
ExportVTT ==
    /\ ~vtt.called
    /\ vtt' = [called |-> TRUE, out |-> toVTT(exportSegments)]
    /\ UNCHANGED << supported, instanceVars, loads, built, ncancel, pc, outcome, answer,
                    result, log, partials, ev, cancelAt, ctx, caller, uiVars,
                    exportSegments, srt, audioBuffer, targetSampleRate, resampled >>

\* ------------------------------------------------------------------ resampleAudio
\* A sample is an element of a Float32Array, kept as a count of 2^-27 (2^27 is
\* 1.0).  The samples here lie in [1/2, 1): with at most 8 channels every
\* value that is stored is at least 2^-4, where Float32 values are 2^-27 apart
\* or more, so every stored value is a whole count.  Arithmetic between the
\* stores is in double precision and is taken as exact.

\* What reading past the end of a typed array yields in arithmetic.
NaN == -2

\* The spacing of the Float32 values around v.
Ulp(v) ==
    IF v < 2^24 THEN 1
    ELSE IF v < 2^25 THEN 2
    ELSE IF v < 2^26 THEN 4
    ELSE IF v < 2^27 THEN 8
    ELSE 16

\* The store of num/den into a Float32Array: the nearest Float32 value, ties
\* to the even mantissa.
Fround(num, den) ==
    LET u   == Ulp(num \div den)
        q   == num \div (den * u)
        rem == num - q * den * u
    IN  IF 2 * rem > den * u \/ (2 * rem = den * u /\ q % 2 = 1)
        THEN (q + 1) * u
        ELSE q * u

\* Math.round(num / den), num >= 0
Round(num, den) == (2 * num + den) \div (2 * den)

\* An element of a typed array of 0-based index k
At(array, k) == IF k >= 0 /\ k < Len(array) THEN array[k + 1] ELSE NaN

\* mono[i] after `mono[i] += channelData[i] / numChannels` for the first n channels
RECURSIVE MonoAfter(_, _, _)
MonoAfter(buffer, i, n) ==
    IF n = 0 THEN 0
    ELSE Fround(MonoAfter(buffer, i, n - 1) * buffer.numberOfChannels
                    + At(buffer.channels[n], i),
                buffer.numberOfChannels)

\* mono after "Mix down to mono"
Mono(buffer) ==
    [k \in 1..buffer.length |-> MonoAfter(buffer, k - 1, buffer.numberOfChannels)]

\* (variant: the ceil index is not clamped to the last sample)
SrcIndexCeilUnclamped(srcIndexFloor, sourceLength) == srcIndexFloor + 1

\* Math.min(srcIndexFloor + 1, sourceLength - 1)
SrcIndexCeil(srcIndexFloor, sourceLength) ==
    IF srcIndexFloor + 1 < sourceLength - 1 THEN srcIndexFloor + 1 ELSE sourceLength - 1

\* Math.floor(i * ratio), ratio = sourceSampleRate / targetSampleRate
SrcIndexFloor(i, sourceSampleRate, targetRate) == (i * sourceSampleRate) \div targetRate

\* result[i]: mono[srcIndexFloor] * (1 - t) + mono[srcIndexCeil] * t, stored
Interpolate(mono, i, sourceSampleRate, targetRate) ==
    LET lo == At(mono, SrcIndexFloor(i, sourceSampleRate, targetRate))
        hi == At(mono, SrcIndexCeil(SrcIndexFloor(i, sourceSampleRate, targetRate),
                                    Len(mono)))
        tn == (i * sourceSampleRate) % targetRate
    IN  IF lo = NaN \/ hi = NaN THEN NaN
        ELSE Fround(lo * (targetRate - tn) + hi * tn, targetRate)

\* resampleAudio(audioBuffer, targetSampleRate): the buffer it returns and the
\* indices of mono that its interpolation loop reads.
resampleAudio(buffer, targetRate) ==
    LET targetLength == Round(buffer.length * targetRate, buffer.sampleRate)
        mono == Mono(buffer)
    IN  [ out   |-> [k \in 1..targetLength |->
                        Interpolate(mono, k - 1, buffer.sampleRate, targetRate)],
          reads |-> UNION { { SrcIndexFloor(i, buffer.sampleRate, targetRate),
                              SrcIndexCeil(SrcIndexFloor(i, buffer.sampleRate, targetRate),
                                           buffer.length) } :
                            i \in 0..(targetLength - 1) } ]

\* 0.5 and 1 - 2^-21
SampleValues == { 2^26, 2^27 - 2^6 }

\* The buffers decodeAudioData can yield: n channels of l samples at rate sr.
AudioBuffers(n, sr, l) ==
    { [numberOfChannels |-> n, sampleRate |-> sr, length |-> l, channels |-> ch] :
        ch \in [1..n -> [1..l -> SampleValues]] }

\* Of these, the longer ones: one channel of the constant 0.5.
LongBuffers ==
    { [numberOfChannels |-> 1, sampleRate |-> sr, length |-> l,
       channels |-> << [k \in 1..l |-> 2^26] >>] :
        sr \in 1..MaxRate, l \in 0..MaxLength }

InitResample ==
    /\ InitInstance
    /\ exportSegments = <<>>
    /\ srt = NotCalled
    /\ vtt = NotCalled
    /\ \E n \in 1..MaxChannels, sr \in 1..MaxRate, l \in 0..MaxSamples :
         audioBuffer \in AudioBuffers(n, sr, l)
    /\ targetSampleRate \in 1..MaxRate
    /\ resampled = NotResampled

InitIndex ==
    /\ InitInstance
    /\ exportSegments = <<>>
    /\ srt = NotCalled
    /\ vtt = NotCalled
    /\ audioBuffer \in LongBuffers
    /\ targetSampleRate \in 1..MaxRate
    /\ resampled = NotResampled

\* this.resampleAudio(audioBuffer, targetSampleRate) is called.
Resample ==
    /\ ~resampled.called
    /\ resampled' = [ called |-> TRUE,
                      out    |-> resampleAudio(audioBuffer, targetSampleRate).out,
                      reads  |-> resampleAudio(audioBuffer, targetSampleRate).reads ]
    /\ UNCHANGED << supported, instanceVars, loads, built, ncancel, pc, outcome, answer,
                    result, log, partials, ev, cancelAt, ctx, caller, uiVars,
                    exportSegments, srt, vtt, audioBuffer, targetSampleRate >>

\* ------------------------------------------------------------------ specifications
\* What the outside world does to a run in flight.
Phases ==
    \/ \E r \in Runs : LoadResume(r)
    \/ \E r \in Runs : ImportDone(r)
    \/ \E r \in Runs : ImportFail(r)
    \/ \E r \in Runs : LoadProgress(r)
    \/ \E r \in Runs : LoadDone(r)
    \/ \E r \in Runs : LoadFail(r)
    \/ \E r \in Runs : ReadProgress(r)
    \/ \E r \in Runs : ReadFail(r)
    \/ \E r \in Runs : ReadDone(r)
    \/ \E r \in Runs : DecodeFail(r)
    \/ \E r \in Runs : DecodeDone(r)
    \/ \E r \in Runs : ProcessFail(r)
    \/ \E r \in Runs : InferFail(r)

\* Any caller: transcribe() and cancel() at any moment.
Next ==
    \/ \E r \in Runs : Transcribe(r)
    \/ Cancel
    \/ Phases
    \/ \E r \in Runs : InferDone(r)

Spec == Init /\ [][Next]_vars

\* The page as the only caller.
NextUI ==
    \/ HandleFile
    \/ \E r \in Runs : ClickTranscribe(r)
    \/ ClickCancel
    \/ Phases
    \/ \E r \in Runs : InferDone(r)

SpecUI == Init /\ [][NextUI]_vars

\* One run, never cancelled, over every answer of the engine.
NextResult ==
    \/ Transcribe(1)
    \/ ImportDone(1)
    \/ LoadDone(1)
    \/ ReadDone(1)
    \/ DecodeDone(1)
    \/ InferDoneAny(1)

SpecResult == Init /\ [][NextResult]_vars

\* Runs that are never cancelled and whose phases succeed, over every progress
\* value the engine and the file reader report.
NextProgress ==
    \/ \E r \in Runs : Transcribe(r)
    \/ \E r \in Runs : LoadResume(r)
    \/ \E r \in Runs : ImportDone(r)
    \/ \E r \in Runs : LoadProgressAny(r)
    \/ \E r \in Runs : LoadDone(r)
    \/ \E r \in Runs : ReadProgressAny(r)
    \/ \E r \in Runs : ReadDone(r)
    \/ \E r \in Runs : DecodeDone(r)
    \/ \E r \in Runs : InferDone(r)

SpecProgress == Init /\ [][NextProgress]_vars

\* The export formatter, over the segment lists.
NextExport ==
    \/ ExportSRT
    \/ ExportVTT

SpecExport == InitExport /\ [][NextExport]_vars

\* resampleAudio, over the decoded buffers and the rates.
NextResample == Resample

SpecResample == InitResample /\ [][NextResample]_vars

\* resampleAudio, over the longer buffers.
SpecIndex == InitIndex /\ [][NextResample]_vars

\* Any caller, where every external operation a run waits for eventually
\* signals completion or failure, and a queued continuation eventually runs.
Fairness ==
    \A r \in Runs :
        /\ WF_vars(LoadResume(r))
        /\ WF_vars(ImportDone(r) \/ ImportFail(r))
        /\ WF_vars(LoadDone(r) \/ LoadFail(r))
        /\ WF_vars(ReadDone(r) \/ ReadFail(r))
        /\ WF_vars(DecodeDone(r) \/ DecodeFail(r) \/ ProcessFail(r))
        /\ WF_vars(InferDone(r) \/ InferFail(r))

SpecFair == Init /\ [][Next]_vars /\ Fairness

\* ------------------------------------------------------------------ properties
Failures == {"LoadFailure", "ReadFailure", "DecodeFailure", "ProcessFailure",
             "InferenceFailure"}
Terminal(r) == ev[r]["end"] + ev[r]["cancel"] + ev[r]["error"]
Statuses(l) == {l[i].status : i \in 1..Len(l)}

\* C1: a run on which cancel() was called while its model load was pending
\* emits no 'error' event and, once settled, has rejected with 'Cancelled' and
\* has seen a 'cancel' event.
C1_CancelBeforeLoadCompletes ==
    \A r \in Runs :
        cancelAt[r] = "load" =>
            /\ ev[r]["error"] = 0
            /\ pc[r] \in Settled =>
                 outcome[r] = "Cancelled" /\ ev[r]["cancel"] >= 1

\* C2: a run emits 'start' at most once and at most one terminal event among
\* 'end', 'cancel', 'error'; once it has settled it has emitted exactly one of each.
C2_OneStartOneTerminal ==
    \A r \in Runs :
        outcome[r] # "Unsupported" =>
            /\ ev[r]["start"] <= 1
            /\ Terminal(r) <= 1
            /\ pc[r] \in Settled => ev[r]["start"] = 1 /\ Terminal(r) = 1

\* What holds of a run one of whose phases has failed.
C3_FailedRun(r) ==
    outcome[r] \in Failures =>
        /\ pc[r] = "rejected"
        /\ result[r] = NoResult
        /\ ev[r]["end"] = 0
        /\ outcome[r] = "LoadFailure" => Statuses(log[r]) \subseteq {"loading"} /\ ctx[r] = "none"
        /\ outcome[r] = "ReadFailure" =>
             Statuses(log[r]) \subseteq {"loading", "extracting", "reading"} /\ ctx[r] = "none"
        /\ outcome[r] \in {"DecodeFailure", "ProcessFailure"} =>
             "transcribing" \notin Statuses(log[r]) /\ partials[r] = 0
        /\ outcome[r] = "DecodeFailure" => "processing" \notin Statuses(log[r])
        /\ "complete" \notin Statuses(log[r])

\* C3: when a phase of a run fails, the step that rejects the run leaves
\* isTranscribing false; the failed run has rejected, holds no result and has
\* emitted no 'end'; it has started no phase after the failed one, and it
\* starts none afterwards.
C3_FailureAborts ==
    [][ \A r \in Runs :
          /\ C3_FailedRun(r)
          /\ (outcome[r] \notin Failures /\ outcome'[r] \in Failures) =>
                (isTranscribing' = FALSE /\ C3_FailedRun(r)')
          /\ outcome[r] \in Failures =>
                /\ pc'[r] = pc[r] /\ outcome'[r] = outcome[r]
                /\ log'[r] = log[r] /\ partials'[r] = partials[r]
                /\ ctx'[r] = ctx[r] /\ result'[r] = result[r]
                /\ ev'[r] = ev[r] ]_vars

\* C3 witness: a run's decoding has failed: the run is rejected, its decoding
\* context closed and isTranscribing false.
C3_Witness ==
    \E r \in Runs :
        outcome[r] = "DecodeFailure" /\ pc[r] = "rejected" /\ ~isTranscribing
            /\ ctx[r] = "closed"

\* C4: after cancel() was called on a run in flight, the run invokes no
\* onProgress or onPartialResult callback and emits no 'loading' event.
C4_SilentAfterCancel ==
    [][ \A r \in Runs :
          cancelAt[r] # "none" =>
              /\ log'[r] = log[r]
              /\ partials'[r] = partials[r]
              /\ ev'[r]["loading"] = ev[r]["loading"] ]_vars

\* C5: the external pipeline construction is not performed again while one is
\* pending or after one has succeeded.
C5_LoadOnce ==
    Cardinality({r \in Runs : pc[r] = "loading"}) + built <= 1

\* The place of a progress status in the order of the phases.
StatusRank(st) ==
    CASE st = "loading" -> 1
      [] st = "extracting" -> 2
      [] st = "reading" -> 3
      [] st = "decoding" -> 4
      [] st = "processing" -> 5
      [] st = "transcribing" -> 6
      [] st = "complete" -> 7

\* C6: within a run, extraction starts only after the model load has
\* completed, the engine is invoked only after extraction has completed, and
\* the progress statuses appear in the order loading, extracting, reading,
\* decoding, processing, transcribing, complete.
C6_PhaseOrder ==
    \A r \in Runs :
        LET l  == log[r]
            st == Statuses(l)
        IN  /\ (pc[r] \in {"reading", "decoding"} \/ "extracting" \in st \/ ctx[r] # "none")
                 => (pipeline # 0 /\ built >= 1)
            /\ (pc[r] = "inferring" \/ partials[r] > 0 \/ outcome[r] = "result")
                 => (ctx[r] = "closed" /\ "processing" \in st)
            \* in phase order; only 'loading' and 'reading' may repeat
            /\ \A i \in 1..(Len(l) - 1) :
                 \/ StatusRank(l[i].status) < StatusRank(l[i + 1].status)
                 \/ /\ l[i].status = l[i + 1].status
                    /\ l[i].status \in {"loading", "reading"}
            /\ outcome[r] = "result" =>
                 {"loading", "extracting", "decoding", "processing", "transcribing",
                  "complete"} \subseteq st

\* C6 witness: a run has resolved after a file-read progress event.
C6_Witness ==
    \E r \in Runs :
        pc[r] = "resolved" /\ "reading" \in Statuses(log[r]) /\ Len(log[r]) = 7

\* C7: with the page as the caller and one file selected, at most one run is
\* in flight at any time.
C7_PageSerializesRuns ==
    currentFile <= 1 => Cardinality({r \in Runs : InFlight(r)}) <= 1

\* t is s without its leading and trailing spaces.
IsTrimOf(t, s) ==
    \E i, j \in 0..Len(s) :
        /\ i + j <= Len(s)
        /\ t = SubSeq(s, i + 1, Len(s) - j)
        /\ \A k \in 1..i : s[k] = " "
        /\ \A k \in (Len(s) - j + 1)..Len(s) : s[k] = " "
        /\ t # <<>> => (t[1] # " " /\ t[Len(t)] # " ")

\* The first n of parts, with one space between neighbours.
RECURSIVE SpacedConcat(_, _)
SpacedConcat(parts, n) ==
    IF n = 0 THEN <<>>
    ELSE IF n = 1 THEN parts[1]
    ELSE SpacedConcat(parts, n - 1) \o <<" ">> \o parts[n]

\* C8: a run that resolved on a non-empty chunk list c1..cn holds n segments in
\* the chunks' order, segment i carrying the trimmed text of ci; its text is the
\* segment texts joined by single spaces, trimmed; its duration is the last
\* segment's endTime.  Without chunks the segment list is empty, the text is the
\* engine's raw text, trimmed (or empty), and the duration is 0.
C8_ResultFromChunks ==
    \A r \in Runs :
        outcome[r] = "result" =>
            LET a   == answer[r]
                res == result[r]
                cs  == a.chunks.val
                n   == Len(cs)
            IN  IF a.chunks.defined /\ n > 0
                THEN /\ Len(res.segments) = n
                     /\ \A i \in 1..n :
                          /\ IsTrimOf(res.segments[i].text, cs[i].text)
                          /\ res.segments[i].startTime =
                               (IF cs[i].timestamp[1] = Null THEN 0 ELSE cs[i].timestamp[1])
                          /\ res.segments[i].endTime =
                               (IF cs[i].timestamp[2] = Null THEN 0 ELSE cs[i].timestamp[2])
                     /\ IsTrimOf(res.text,
                                 SpacedConcat([i \in 1..n |-> res.segments[i].text], n))
                     /\ res.duration = res.segments[n].endTime
                ELSE /\ res.segments = <<>>
                     /\ IsTrimOf(res.text, IF a.text.defined THEN a.text.val ELSE <<>>)
                     /\ res.duration = 0

\* C8 witness: a run resolved on two chunks whose texts needed trimming.
C8_Witness ==
    \E r \in Runs :
        /\ outcome[r] = "result"
        /\ Len(answer[r].chunks.val) = 2
        /\ answer[r].chunks.val[1].text = <<"c", " ">>
        /\ answer[r].chunks.val[2].text = <<" ", "b">>
        /\ result[r].text = <<"c", " ", "b">>
        /\ result[r].duration = 1

\* C9: every segment of a result satisfies 0 <= startTime <= endTime.
C9_SegmentBounds ==
    \A r \in Runs :
        outcome[r] = "result" =>
            \A i \in 1..Len(result[r].segments) :
                /\ 0 <= result[r].segments[i].startTime
                /\ result[r].segments[i].startTime <= result[r].segments[i].endTime

\* C10: adjacent segments of a result have non-decreasing start times.
C10_StartsNonDecreasing ==
    \A r \in Runs :
        outcome[r] = "result" =>
            \A i \in 1..(Len(result[r].segments) - 1) :
                result[r].segments[i].startTime <= result[r].segments[i + 1].startTime

\* A run that has emitted no event and invoked no callback.
NoEvents == [e \in EventNames |-> 0]
Untouched(r) ==
    /\ ev[r] = NoEvents
    /\ log[r] = <<>>
    /\ partials[r] = 0
    /\ ctx[r] = "none"
    /\ result[r] = NoResult

\* C11: when isSupported() is false, the step in which transcribe() is called
\* rejects the run at once and leaves isTranscribing, isCancelled, segments and
\* the cached pipeline as they were, emits no event, invokes no callback and
\* starts no load; the rejected run never emits an event, invokes a callback
\* or starts a phase afterwards.
C11_UnsupportedRejectsBeforeWork ==
    [][ \A r \in Runs :
          /\ (~supported /\ pc[r] = "idle" /\ pc'[r] # "idle") =>
                /\ pc'[r] = "rejected"
                /\ outcome'[r] = "Unsupported"
                /\ UNCHANGED << instanceVars, ev, log, partials, ctx, loads, built >>
          /\ outcome[r] = "Unsupported" =>
                /\ Untouched(r)
                /\ pc[r] = "rejected" /\ pc'[r] = "rejected"
                /\ Untouched(r)' ]_vars

\* C11 witness: without platform support, cancel() was called and both runs
\* were rejected, the second one after the cancel(): isCancelled is still true.
C11_Witness ==
    /\ ~supported
    /\ \A r \in Runs : outcome[r] = "Unsupported" /\ pc[r] = "rejected"
    /\ isCancelled /\ ~isTranscribing /\ pipeline = 0 /\ segments = <<>>

\* C12: an AudioContext that extractAudio created is open only while its
\* decoding is pending: once extractAudio's promise has settled it is closed.
C12_ContextReleased ==
    \A r \in Runs : ctx[r] = "open" => pc[r] = "decoding"

\* C13: within a run, the percents of successive onProgress callbacks of one
\* status are strictly increasing; every status is one of the seven and every
\* percent lies in 0..100.
C13_ProgressIncreasing ==
    \A r \in Runs :
        LET l == log[r]
        IN  /\ \A i, j \in 1..Len(l) :
                 (i < j /\ l[i].status = l[j].status) => l[i].percent < l[j].percent
            /\ \A i \in 1..Len(l) :
                 /\ l[i].status \in {"loading", "reading", "decoding", "processing",
                                     "extracting", "transcribing", "complete"}
                 /\ l[i].percent \in 0..100

\* A string split at its line breaks.
RECURSIVE SplitLines(_)
SplitLines(s) ==
    IF \A i \in 1..Len(s) : s[i] # "\n" THEN << s >>
    ELSE LET k == CHOOSE i \in 1..Len(s) :
                      s[i] = "\n" /\ \A j \in 1..(i - 1) : s[j] # "\n"
         IN  << SubSeq(s, 1, k - 1) >> \o SplitLines(SubSeq(s, k + 1, Len(s)))

\* The blocks of a list of lines: its maximal runs of non-empty lines.
RECURSIVE BlocksOf(_)
BlocksOf(lines) ==
    IF lines = <<>> THEN <<>>
    ELSE LET rest == BlocksOf(Tail(lines))
         IN  IF Head(lines) = <<>> THEN rest
             ELSE IF Len(lines) > 1 /\ lines[2] # <<>>
                  THEN << << Head(lines) >> \o rest[1] >> \o Tail(rest)
                  ELSE << << Head(lines) >> >> \o rest

\* The line is the decimal numeral of k.
IsNumeral(line, k) ==
    /\ line # <<>>
    /\ \A i \in 1..Len(line) : \E d \in 0..9 : Digits[d + 1] = line[i]
    /\ LET RECURSIVE Value(_)
           Value(n) == IF n = 0 THEN 0
                       ELSE 10 * Value(n - 1)
                                + (CHOOSE d \in 0..9 : Digits[d + 1] = line[n])
       IN  Value(Len(line)) = k

\* There are n blocks and the first line of the k-th is the number k.
Numbered(blocks, n) ==
    /\ Len(blocks) = n
    /\ \A k \in 1..n : IsNumeral(blocks[k][1], k)

BlocksMatch ==
    /\ srt.called => Numbered(BlocksOf(SplitLines(srt.out)), Len(exportSegments))
    /\ vtt.called =>
         LET blocks == BlocksOf(SplitLines(vtt.out))
         IN  /\ blocks # <<>>
             /\ blocks[1] = << <<"W", "E", "B", "V", "T", "T">> >>
             /\ Numbered(Tail(blocks), Len(exportSegments))

\* No segment text holds an empty line.
NoEmptyLineInTexts ==
    \A i \in 1..Len(exportSegments) :
        LET t == exportSegments[i].text
        IN  t # <<>> => \A k \in 1..Len(SplitLines(t)) : SplitLines(t)[k] # <<>>

\* C14 as stated: for every segment list, the blank-line-separated blocks of
\* toSRT's output are as many as the segments and the k-th begins with the
\* number k, and so do the cue blocks of toVTT's output after the header.
C14_BlocksMatchSegments == BlocksMatch

\* C14, amended: for every segment list none of whose texts holds an empty
\* line (a text may be empty), the blank-line-separated blocks of toSRT's
\* output are as many as the segments and the k-th begins with the number k,
\* and so do the cue blocks of toVTT's output after the header.
C14_BlocksMatchSingleSpaced == NoEmptyLineInTexts => BlocksMatch

\* C14 witness: two segments, the first with an empty text and the second
\* with a two-line text, were rendered by toSRT and toVTT.
C14_Witness ==
    /\ srt.called /\ vtt.called
    /\ Len(exportSegments) = 2
    /\ exportSegments[1].text = <<>>
    /\ exportSegments[2].text = <<"a", "\n", "b">>
    /\ exportSegments[2].endTime = 3661
    /\ Len(BlocksOf(SplitLines(srt.out))) = 2

\* Every channel of the buffer holds the value c throughout.
ConstantBuffer(buffer, c) ==
    \A n \in 1..buffer.numberOfChannels : \A k \in 1..buffer.length :
        buffer.channels[n][k] = c

\* C15: for a buffer all of whose channels hold one constant c, and any
\* rates, resampleAudio returns round(sourceLength * targetRate / sourceRate)
\* samples, each equal to c.
C15_ConstantBufferInvariant ==
    resampled.called =>
        \A c \in SampleValues :
            ConstantBuffer(audioBuffer, c) =>
                /\ 2 * Len(resampled.out) * audioBuffer.sampleRate
                       <= 2 * audioBuffer.length * targetSampleRate + audioBuffer.sampleRate
                /\ 2 * (Len(resampled.out) + 1) * audioBuffer.sampleRate
                       > 2 * audioBuffer.length * targetSampleRate + audioBuffer.sampleRate
                /\ \A k \in 1..Len(resampled.out) : resampled.out[k] = c

\* The sum of the channels' k-th samples.
RECURSIVE ChannelSum(_, _, _)
ChannelSum(buffer, k, n) ==
    IF n = 0 THEN 0 ELSE ChannelSum(buffer, k, n - 1) + buffer.channels[n][k]

\* C16: for a buffer already at the target rate, resampleAudio returns as many
\* samples as a channel holds, the k-th being the mean of the channels' k-th
\* samples (as the Float32 value nearest to it); one channel passes through
\* unchanged.
C16_MixdownIsMean ==
    (resampled.called /\ audioBuffer.sampleRate = targetSampleRate) =>
        /\ Len(resampled.out) = audioBuffer.length
        /\ \A k \in 1..Len(resampled.out) :
             resampled.out[k] =
                Fround(ChannelSum(audioBuffer, k, audioBuffer.numberOfChannels),
                       audioBuffer.numberOfChannels)
        /\ audioBuffer.numberOfChannels = 1 => resampled.out = audioBuffer.channels[1]

\* C17: a run on which cancel() was called while it was in flight never emits
\* 'end', never reports 'complete' and never resolves with a result.
C17_CancelNeverLost ==
    \A r \in Runs :
        cancelAt[r] # "none" =>
            /\ ev[r]["end"] = 0
            /\ "complete" \notin Statuses(log[r])
            /\ outcome[r] # "result"
            /\ pc[r] # "resolved"

\* C18: isTranscribing is true exactly while some run has started its work and
\* has not yet settled.
C18_TranscribingIffInFlight ==
    isTranscribing <=> (\E r \in Runs : InFlight(r))

\* Every run that was invoked eventually settles, and a settled run that had
\* started has emitted a terminal event.
EventuallySettles ==
    /\ \A r \in Runs : (pc[r] # "idle") ~> (pc[r] \in Settled)
    /\ [](\A r \in Runs :
            (pc[r] \in Settled /\ outcome[r] # "Unsupported") => Terminal(r) >= 1)

\* C19: where every external operation eventually signals completion or
\* failure, a run on which cancel() was called while a phase was in flight
\* takes the cancellation no later than the end of that phase: as long as it
\* is in flight it is still in the phase it was cancelled in.
C19_CancelTakesEffectByPhaseEnd ==
    \A r \in Runs :
        (cancelAt[r] # "none" /\ InFlight(r)) => PhaseOf(pc[r]) = cancelAt[r]

\* C20: every index of mono that the interpolation loop of resampleAudio
\* reads lies in 0..sourceLength-1, for the floor index floor(i *
\* sourceRate / targetRate) of every output index i and for the clamped ceil
\* index; an empty source is not read at all.
C20_ReadsInBounds ==
    resampled.called =>
        LET L == audioBuffer.length
            S == audioBuffer.sampleRate
            T == targetSampleRate
        IN  /\ \A k \in resampled.reads : 0 <= k /\ k <= L - 1
            /\ \A i \in 0..(Len(resampled.out) - 1) :
                 /\ (i * S) \div T \in resampled.reads
                 /\ 0 <= (i * S) \div T /\ (i * S) \div T <= L - 1
            /\ \A k \in 1..Len(resampled.out) : resampled.out[k] # NaN
            /\ L = 0 => (resampled.reads = {} /\ resampled.out = <<>>)

\* C20 witness: a buffer of MaxLength samples was upsampled and the loop read
\* its last sample, at an index where the unclamped ceil would be out of bounds.
C20_Witness ==
    /\ resampled.called
    /\ audioBuffer.length = MaxLength
    /\ audioBuffer.sampleRate < targetSampleRate
    /\ Len(resampled.out) > audioBuffer.length
    /\ (audioBuffer.length - 1) \in resampled.reads

====
